---- MODULE Spec2Model ----
(***************************************************************************)
(* A model of mve::TriangleMesh (libs/mve/trianglemesh.h): the eight       *)
(* attribute arrays, the inline operations clear, clear_normals and the    *)
(* five has_* predicates, and the three operations the header only         *)
(* declares (delete_vertices, recalc_normals, ensure_normals), which are   *)
(* modelled after the design document.                                     *)
(*                                                                         *)
(* Vectors are integer tuples.  The owner fills the arrays by push_back    *)
(* through the mutable accessors; the k-th position pushed is a point of   *)
(* a planar unit grid, so every face normal is parallel to the z axis and  *)
(* normalisation is exact on integers.                                     *)
(***************************************************************************)
EXTENDS Integers, Sequences, FiniteSets

\* Largest length any per-vertex array is filled to.
MaxVerts == 3

\* Largest number of triangles pushed; face arrays are filled up to it.
MaxFaces == 1

VARIABLES
    vertices,            \* VertexList: positions
    vertex_normals,      \* NormalList
    vertex_colors,       \* ColorList
    vertex_confidences,  \* ConfidenceList
    vertex_texcoords,    \* TexCoordList
    faces,               \* FaceList: flat list of 0-based vertex ids
    face_normals,        \* NormalList
    face_colors,         \* ColorList
    op,                  \* name of the last member function called
    args,                \* its arguments
    ret,                 \* its return value (has_* only)
    pre,                 \* the mesh at the time of that call
    calls                \* calls made since the arrays were filled

vars == <<vertices, vertex_normals, vertex_colors, vertex_confidences,
          vertex_texcoords, faces, face_normals, face_colors,
          op, args, ret, pre, calls>>

ghost == <<op, args, ret, pre, calls>>

\* The data members of TriangleMesh as one value.
Mesh ==
    [vertices |-> vertices, vertex_normals |-> vertex_normals,
     vertex_colors |-> vertex_colors,
     vertex_confidences |-> vertex_confidences,
     vertex_texcoords |-> vertex_texcoords, faces |-> faces,
     face_normals |-> face_normals, face_colors |-> face_colors]

\* TriangleMesh::TriangleMesh: every vector default-constructed.
EmptyMesh ==
    [vertices |-> <<>>, vertex_normals |-> <<>>, vertex_colors |-> <<>>,
     vertex_confidences |-> <<>>, vertex_texcoords |-> <<>>, faces |-> <<>>,
     face_normals |-> <<>>, face_colors |-> <<>>]

NoArgs == [face |-> FALSE, vertex |-> FALSE, dlist |-> <<>>]

----------------------------------------------------------------------------
(* Values the owner writes through the mutable accessors.                  *)

\* Position of the k-th vertex pushed (k from 0): a point of the unit grid
\* in the plane z = 0.
PointAt(k) == <<k % 2, k \div 2, 0>>

\* A normal written by hand: never parallel to z, so never a computed one.
StaleNormalAt(k) == <<1, k, 0>>

ColorAt(k) == <<k, 0, 0, 1>>

ConfidenceAt(k) == k

TexCoordAt(k) == <<k, 0>>

\* The k-th triangle of a fan around vertex 0, in either orientation.
Triangles(k) == { <<0, k + 1, k + 2>>, <<0, k + 2, k + 1>> }

----------------------------------------------------------------------------
(* Consistency predicates.                                                 *)

\* A slip: the colour count is compared with the normal count.
has_vertex_colors_vs_normals(m) ==
    Len(m.vertex_colors) = Len(m.vertex_normals)

has_vertex_colors(m) == Len(m.vertex_colors) = Len(m.vertices)

\* A slip: "at most" for "exactly".
has_vertex_confidences_atmost(m) ==
    Len(m.vertex_confidences) <= Len(m.vertices)

has_vertex_confidences(m) == Len(m.vertex_confidences) = Len(m.vertices)

\* A slip: the vertex-normal count is compared with the face-normal count.
has_vertex_normals_vs_face_normals(m) ==
    Len(m.vertex_normals) = Len(m.face_normals)

has_vertex_normals(m) == Len(m.vertex_normals) = Len(m.vertices)

\* A slip: the factor 3 on the wrong side.
has_face_normals_swapped(m) == Len(m.faces) * 3 = Len(m.face_normals)

has_face_normals(m) == Len(m.faces) = Len(m.face_normals) * 3

has_face_colors(m) == Len(m.faces) = Len(m.face_colors) * 3

----------------------------------------------------------------------------
(* clear and clear_normals.                                                *)

\* A slip: the face list cleared along with the normals.
clear_normals_and_faces(m) ==
    [m EXCEPT !.vertex_normals = <<>>, !.face_normals = <<>>,
              !.faces = <<>>]

clear_normals(m) ==
    [m EXCEPT !.vertex_normals = <<>>, !.face_normals = <<>>]

clear(m) ==
    [m EXCEPT !.vertices = <<>>, !.faces = <<>>,
              !.face_normals = <<>>, !.vertex_normals = <<>>]

----------------------------------------------------------------------------
(* Compaction engine: delete_vertices.                                     *)

\* Indices of the entries a delete list keeps, in ascending order.
KeptIndices(dlist) ==
    SelectSeq([i \in 1..Len(dlist) |-> i], LAMBDA i : ~dlist[i])

\* Removes from vec the entries the delete list marks; survivors keep
\* their order.  Entries beyond the delete list are dropped.
vector_clean(dlist, vec) ==
    LET kept == SelectSeq(KeptIndices(dlist), LAMBDA i : i <= Len(vec))
    IN  [j \in 1..Len(kept) |-> vec[kept[j]]]

\* Texture coordinates have no has_* predicate; alignment is the same
\* length comparison.
TexcoordsAligned(m) == Len(m.vertex_texcoords) = Len(m.vertices)

\* A variant that also drops the triangles naming a deleted vertex.
delete_vertices_and_faces(m, dlist) ==
    LET gone(i) == m.faces[i] + 1 \in DOMAIN dlist /\ dlist[m.faces[i] + 1]
        keep(i) == LET b == 3 * ((i - 1) \div 3)
                   IN  ~(gone(b + 1) \/ gone(b + 2) \/ gone(b + 3))
        idx == SelectSeq([i \in 1..Len(m.faces) |-> i], keep)
    IN  [m EXCEPT
            !.vertex_normals =
                IF has_vertex_normals(m) THEN vector_clean(dlist, @) ELSE @,
            !.vertex_colors =
                IF has_vertex_colors(m) THEN vector_clean(dlist, @) ELSE @,
            !.vertex_confidences =
                IF has_vertex_confidences(m) THEN vector_clean(dlist, @)
                ELSE @,
            !.vertex_texcoords =
                IF TexcoordsAligned(m) THEN vector_clean(dlist, @) ELSE @,
            !.vertices = vector_clean(dlist, @),
            !.faces = [j \in 1..Len(idx) |-> m.faces[idx[j]]]]

delete_vertices(m, dlist) ==
    [m EXCEPT
        !.vertex_normals =
            IF has_vertex_normals(m) THEN vector_clean(dlist, @) ELSE @,
        !.vertex_colors =
            IF has_vertex_colors(m) THEN vector_clean(dlist, @) ELSE @,
        !.vertex_confidences =
            IF has_vertex_confidences(m) THEN vector_clean(dlist, @) ELSE @,
        !.vertex_texcoords =
            IF TexcoordsAligned(m) THEN vector_clean(dlist, @) ELSE @,
        !.vertices = vector_clean(dlist, @)]

----------------------------------------------------------------------------
(* Normal engine: recalc_normals and ensure_normals.                       *)

Sub(a, b) == <<a[1] - b[1], a[2] - b[2], a[3] - b[3]>>

Add(a, b) == <<a[1] + b[1], a[2] + b[2], a[3] + b[3]>>

Cross(a, b) ==
    <<a[2] * b[3] - a[3] * b[2],
      a[3] * b[1] - a[1] * b[3],
      a[1] * b[2] - a[2] * b[1]>>

Sgn(x) == IF x > 0 THEN 1 ELSE IF x < 0 THEN -1 ELSE 0

\* Scaling to unit length.  Exact for a vector parallel to an axis, which
\* every normal of the planar grid is; the zero vector stays zero.
Normalize(v) == <<Sgn(v[1]), Sgn(v[2]), Sgn(v[3])>>

\* I4: every face index refers to a vertex.
IndicesInRange(m) ==
    \A i \in 1..Len(m.faces) : m.faces[i] < Len(m.vertices)

FaceCount(m) == Len(m.faces) \div 3

\* Position of corner c (0..2) of face f (1..FaceCount).
Corner(m, f, c) == m.vertices[m.faces[3 * (f - 1) + c + 1] + 1]

ComputeFaceNormals(m) ==
    [f \in 1..FaceCount(m) |->
        Normalize(Cross(Sub(Corner(m, f, 1), Corner(m, f, 0)),
                        Sub(Corner(m, f, 2), Corner(m, f, 0))))]

\* Sum of fnormals over the first n entries of the face list that name
\* vertex v (0-based): the accumulator of v after n steps of the scan.
RECURSIVE Accumulate(_, _, _, _)
Accumulate(m, fnormals, v, n) ==
    IF n = 0 THEN <<0, 0, 0>>
    ELSE LET rest == Accumulate(m, fnormals, v, n - 1)
         IN  IF m.faces[n] = v
             THEN Add(rest, fnormals[((n - 1) \div 3) + 1])
             ELSE rest

ComputeVertexNormals(m, fnormals) ==
    [v \in 1..Len(m.vertices) |->
        Normalize(Accumulate(m, fnormals, v - 1, Len(m.faces)))]

\* Face normals are stored only when asked for; vertex normals are built
\* from the face normals just computed, else from the stored ones when
\* present, else from transient ones.
recalc_normals(m, face, vertex) ==
    LET fnormals == IF face \/ ~has_face_normals(m)
                    THEN ComputeFaceNormals(m)
                    ELSE m.face_normals
    IN  [m EXCEPT
            !.face_normals = IF face THEN fnormals ELSE @,
            !.vertex_normals =
                IF vertex THEN ComputeVertexNormals(m, fnormals) ELSE @]

ensure_normals(m, face, vertex) ==
    recalc_normals(m, face /\ ~has_face_normals(m),
                      vertex /\ ~has_vertex_normals(m))

\* The normal engine reads positions through the face list: it is defined
\* only when it recomputes nothing or every index is in range.
RecalcDefined(m, face, vertex) == (face \/ vertex) => IndicesInRange(m)

EnsureDefined(m, face, vertex) ==
    RecalcDefined(m, face /\ ~has_face_normals(m),
                     vertex /\ ~has_vertex_normals(m))

----------------------------------------------------------------------------
(* The state machine.                                                      *)

Init ==
    /\ vertices = <<>> /\ vertex_normals = <<>> /\ vertex_colors = <<>>
    /\ vertex_confidences = <<>> /\ vertex_texcoords = <<>>
    /\ faces = <<>> /\ face_normals = <<>> /\ face_colors = <<>>
    /\ op = "create" /\ args = NoArgs /\ ret = FALSE
    /\ pre = EmptyMesh /\ calls = 0

\* Direct mutation: the owner fills the arrays before it calls anything.
PushVertex ==
    /\ calls = 0 /\ Len(vertices) < MaxVerts
    /\ vertices' = Append(vertices, PointAt(Len(vertices)))
    /\ UNCHANGED <<vertex_normals, vertex_colors, vertex_confidences,
                   vertex_texcoords, faces, face_normals, face_colors, ghost>>

PushVertexNormal ==
    /\ calls = 0 /\ Len(vertex_normals) < MaxVerts
    /\ vertex_normals' =
           Append(vertex_normals, StaleNormalAt(Len(vertex_normals)))
    /\ UNCHANGED <<vertices, vertex_colors, vertex_confidences,
                   vertex_texcoords, faces, face_normals, face_colors, ghost>>

PushVertexColor ==
    /\ calls = 0 /\ Len(vertex_colors) < MaxVerts
    /\ vertex_colors' = Append(vertex_colors, ColorAt(Len(vertex_colors)))
    /\ UNCHANGED <<vertices, vertex_normals, vertex_confidences,
                   vertex_texcoords, faces, face_normals, face_colors, ghost>>

PushVertexConfidence ==
    /\ calls = 0 /\ Len(vertex_confidences) < MaxVerts
    /\ vertex_confidences' =
           Append(vertex_confidences, ConfidenceAt(Len(vertex_confidences)))
    /\ UNCHANGED <<vertices, vertex_normals, vertex_colors,
                   vertex_texcoords, faces, face_normals, face_colors, ghost>>

PushVertexTexcoord ==
    /\ calls = 0 /\ Len(vertex_texcoords) < MaxVerts
    /\ vertex_texcoords' =
           Append(vertex_texcoords, TexCoordAt(Len(vertex_texcoords)))
    /\ UNCHANGED <<vertices, vertex_normals, vertex_colors,
                   vertex_confidences, faces, face_normals, face_colors,
                   ghost>>

PushFace ==
    /\ calls = 0 /\ FaceCount(Mesh) < MaxFaces
    /\ \E t \in Triangles(FaceCount(Mesh)) : faces' = faces \o t
    /\ UNCHANGED <<vertices, vertex_normals, vertex_colors,
                   vertex_confidences, vertex_texcoords, face_normals,
                   face_colors, ghost>>

PushFaceNormal ==
    /\ calls = 0 /\ Len(face_normals) < MaxFaces
    /\ face_normals' = Append(face_normals, StaleNormalAt(Len(face_normals)))
    /\ UNCHANGED <<vertices, vertex_normals, vertex_colors,
                   vertex_confidences, vertex_texcoords, faces, face_colors,
                   ghost>>

PushFaceColor ==
    /\ calls = 0 /\ Len(face_colors) < MaxFaces
    /\ face_colors' = Append(face_colors, ColorAt(Len(face_colors)))
    /\ UNCHANGED <<vertices, vertex_normals, vertex_colors,
                   vertex_confidences, vertex_texcoords, faces, face_normals,
                   ghost>>

\* A member function was called with arguments a: the mesh becomes m and
\* the call returns r.
Call(name, a, r, m) ==
    /\ vertices' = m.vertices
    /\ vertex_normals' = m.vertex_normals
    /\ vertex_colors' = m.vertex_colors
    /\ vertex_confidences' = m.vertex_confidences
    /\ vertex_texcoords' = m.vertex_texcoords
    /\ faces' = m.faces
    /\ face_normals' = m.face_normals
    /\ face_colors' = m.face_colors
    /\ op' = name /\ args' = a /\ ret' = r
    /\ pre' = Mesh
    /\ calls' = calls + 1

Clear ==
    /\ calls = 0
    /\ Call("clear", NoArgs, FALSE, clear(Mesh))

ClearNormals ==
    /\ calls = 0
    /\ Call("clear_normals", NoArgs, FALSE, clear_normals(Mesh))

HasVertexColors ==
    /\ calls = 0
    /\ Call("has_vertex_colors", NoArgs, has_vertex_colors(Mesh), Mesh)

HasVertexConfidences ==
    /\ calls = 0
    /\ Call("has_vertex_confidences", NoArgs,
            has_vertex_confidences(Mesh), Mesh)

HasVertexNormals ==
    /\ calls = 0
    /\ Call("has_vertex_normals", NoArgs, has_vertex_normals(Mesh), Mesh)

HasFaceNormals ==
    /\ calls = 0
    /\ Call("has_face_normals", NoArgs, has_face_normals(Mesh), Mesh)

HasFaceColors ==
    /\ calls = 0
    /\ Call("has_face_colors", NoArgs, has_face_colors(Mesh), Mesh)

\* The delete list has one flag per vertex.
DeleteVertices ==
    /\ calls = 0
    /\ \E dlist \in [1..Len(vertices) -> BOOLEAN] :
           Call("delete_vertices", [NoArgs EXCEPT !.dlist = dlist], FALSE,
                delete_vertices(Mesh, dlist))

RecalcNormals ==
    /\ calls = 0
    /\ \E face \in BOOLEAN, vertex \in BOOLEAN :
           /\ RecalcDefined(Mesh, face, vertex)
           /\ Call("recalc_normals",
                   [NoArgs EXCEPT !.face = face, !.vertex = vertex], FALSE,
                   recalc_normals(Mesh, face, vertex))

\* Called on a filled mesh, or a second time in a row with the same flags.
EnsureNormals ==
    \E face \in BOOLEAN, vertex \in BOOLEAN :
        /\ \/ calls = 0
           \/ /\ calls = 1 /\ op = "ensure_normals"
              /\ args.face = face /\ args.vertex = vertex
        /\ EnsureDefined(Mesh, face, vertex)
        /\ Call("ensure_normals",
                [NoArgs EXCEPT !.face = face, !.vertex = vertex], FALSE,
                ensure_normals(Mesh, face, vertex))

Next ==
    \/ PushVertex \/ PushVertexNormal \/ PushVertexColor
    \/ PushVertexConfidence \/ PushVertexTexcoord
    \/ PushFace \/ PushFaceNormal \/ PushFaceColor
    \/ Clear \/ ClearNormals
    \/ HasVertexColors \/ HasVertexConfidences \/ HasVertexNormals
    \/ HasFaceNormals \/ HasFaceColors
    \/ DeleteVertices \/ RecalcNormals \/ EnsureNormals

Spec == Init /\ [][Next]_vars

----------------------------------------------------------------------------
(* Properties.                                                             *)

\* Number of entries the delete list d keeps among its first i.
NewIndex(d, i) == Cardinality({h \in 1..i : ~d[h]})

\* post is prior with exactly the entries marked in d removed: the entry
\* kept at index i sits at index NewIndex(d, i).
Compacted(d, prior, post) ==
    /\ Len(post) = Len(prior) - Cardinality({i \in 1..Len(d) : d[i]})
    /\ \A i \in 1..Len(prior) : ~d[i] => post[NewIndex(d, i)] = prior[i]

AllEmpty ==
    /\ vertices = <<>> /\ vertex_normals = <<>> /\ vertex_colors = <<>>
    /\ vertex_confidences = <<>> /\ vertex_texcoords = <<>>
    /\ faces = <<>> /\ face_normals = <<>> /\ face_colors = <<>>

\* C1: after clear() every attribute array of the mesh has length 0.
C1_ClearEmptiesEveryArray == op = "clear" => AllEmpty

\* C2: right after clear() each of the five has_* predicates is true.
C2_ClearMakesEveryPredicateTrue ==
    op = "clear" =>
        /\ has_vertex_colors(Mesh) /\ has_vertex_confidences(Mesh)
        /\ has_vertex_normals(Mesh) /\ has_face_normals(Mesh)
        /\ has_face_colors(Mesh)

\* C3: clear_normals() empties the vertex-normal and the face-normal array
\* and leaves the six other arrays as they were.
C3_ClearNormalsFrame ==
    op = "clear_normals" =>
        /\ vertex_normals = <<>> /\ face_normals = <<>>
        /\ vertices = pre.vertices
        /\ vertex_colors = pre.vertex_colors
        /\ vertex_confidences = pre.vertex_confidences
        /\ vertex_texcoords = pre.vertex_texcoords
        /\ faces = pre.faces
        /\ face_colors = pre.face_colors

C3_Witness ==
    /\ op = "clear_normals"
    /\ pre.vertex_normals # <<>> /\ pre.face_normals # <<>>
    /\ vertices # <<>> /\ vertex_colors # <<>> /\ vertex_confidences # <<>>
    /\ vertex_texcoords # <<>> /\ faces # <<>> /\ face_colors # <<>>

\* C4: each has_* predicate returns its length comparison, in which the
\* texture-coordinate length does not occur, and changes no array.
C4_PredicatesAreLengthComparisons ==
    /\ op = "has_vertex_colors" =>
           /\ ret = (Len(vertex_colors) = Len(vertices))
           /\ Mesh = pre
    /\ op = "has_vertex_confidences" =>
           /\ ret = (Len(vertex_confidences) = Len(vertices))
           /\ Mesh = pre
    /\ op = "has_vertex_normals" =>
           /\ ret = (Len(vertex_normals) = Len(vertices))
           /\ Mesh = pre
    /\ op = "has_face_normals" =>
           /\ ret = (Len(faces) = 3 * Len(face_normals))
           /\ Mesh = pre
    /\ op = "has_face_colors" =>
           /\ ret = (Len(faces) = 3 * Len(face_colors))
           /\ Mesh = pre

C4_Witness ==
    /\ op = "has_face_normals" /\ ret
    /\ faces # <<>>
    /\ vertices # <<>> /\ Len(vertex_texcoords) # Len(vertices)

\* C5: delete_vertices removes exactly the marked entries from positions
\* and from every optional per-vertex array that was as long as positions:
\* each ends with (vertex count - marked) entries, the kept entry of
\* original index i sits at the same new index in all of them, and an
\* all-false delete list changes nothing.
C5_DeleteCompactsAlignedArrays ==
    op = "delete_vertices" =>
        LET d == args.dlist
            n == Len(pre.vertices)
        IN  /\ Compacted(d, pre.vertices, vertices)
            /\ Len(pre.vertex_normals) = n =>
                   Compacted(d, pre.vertex_normals, vertex_normals)
            /\ Len(pre.vertex_colors) = n =>
                   Compacted(d, pre.vertex_colors, vertex_colors)
            /\ Len(pre.vertex_confidences) = n =>
                   Compacted(d, pre.vertex_confidences, vertex_confidences)
            /\ Len(pre.vertex_texcoords) = n =>
                   Compacted(d, pre.vertex_texcoords, vertex_texcoords)
            /\ (\A i \in 1..n : ~d[i]) => Mesh = pre

C5_Witness ==
    /\ op = "delete_vertices"
    /\ args.dlist = <<FALSE, TRUE, FALSE>>
    /\ Len(pre.vertex_normals) = 3 /\ Len(pre.vertex_colors) = 3
    /\ Len(pre.vertex_confidences) = 3 /\ Len(pre.vertex_texcoords) = 3
    /\ vertices = <<PointAt(0), PointAt(2)>>
    /\ vertex_confidences = <<ConfidenceAt(0), ConfidenceAt(2)>>

\* C6: delete_vertices leaves the face list, the face normals and the face
\* colours as they were, also when a face names a deleted vertex.
C6_DeleteLeavesFaceData ==
    op = "delete_vertices" =>
        /\ faces = pre.faces
        /\ face_normals = pre.face_normals
        /\ face_colors = pre.face_colors

C6_Witness ==
    /\ op = "delete_vertices"
    /\ IndicesInRange(pre) /\ ~IndicesInRange(Mesh)
    /\ faces # <<>> /\ face_normals # <<>> /\ face_colors # <<>>

\* C7: delete_vertices leaves untouched every optional per-vertex array
\* whose length differs from the vertex count at the call.
C7_DeleteLeavesUnalignedArrays ==
    op = "delete_vertices" =>
        LET n == Len(pre.vertices)
        IN  /\ Len(pre.vertex_normals) # n =>
                   vertex_normals = pre.vertex_normals
            /\ Len(pre.vertex_colors) # n =>
                   vertex_colors = pre.vertex_colors
            /\ Len(pre.vertex_confidences) # n =>
                   vertex_confidences = pre.vertex_confidences
            /\ Len(pre.vertex_texcoords) # n =>
                   vertex_texcoords = pre.vertex_texcoords

C7_Witness ==
    /\ op = "delete_vertices"
    /\ args.dlist = <<TRUE, FALSE, FALSE>>
    /\ Len(pre.vertex_confidences) = 1 /\ Len(pre.vertex_texcoords) = 2
    /\ Len(pre.vertex_colors) = 3 /\ Len(vertex_colors) = 2
    /\ vertex_confidences = pre.vertex_confidences

\* C8: after recalc_normals(true, true) both normal arrays are present:
\* one face normal per triangle and one vertex normal per vertex, whatever
\* the two arrays held before.
C8_RecalcMakesNormalsPresent ==
    op = "recalc_normals" /\ args.face /\ args.vertex =>
        /\ has_face_normals(Mesh) /\ has_vertex_normals(Mesh)
        /\ Len(face_normals) = Len(faces) \div 3
        /\ Len(vertex_normals) = Len(vertices)

C8_Witness ==
    /\ op = "recalc_normals" /\ args.face /\ args.vertex
    /\ faces # <<>> /\ vertices # <<>>
    /\ Len(pre.face_normals) # Len(face_normals)
    /\ Len(pre.vertex_normals) # Len(vertex_normals)
    /\ Len(pre.vertex_normals) > 0

\* C9: ensure_normals leaves a normal array unchanged when that array was
\* present at the call (its length matched the face count, respectively
\* the vertex count), stale values included, and when its flag is false.
C9_EnsureLeavesPresentNormals ==
    op = "ensure_normals" =>
        /\ Len(pre.faces) = 3 * Len(pre.face_normals) =>
               face_normals = pre.face_normals
        /\ Len(pre.vertex_normals) = Len(pre.vertices) =>
               vertex_normals = pre.vertex_normals
        /\ ~args.face => face_normals = pre.face_normals
        /\ ~args.vertex => vertex_normals = pre.vertex_normals

C9_Witness ==
    /\ op = "ensure_normals" /\ args.face /\ args.vertex /\ calls = 1
    /\ pre.face_normals # <<>> /\ has_face_normals(pre)
    /\ IndicesInRange(pre)
    /\ pre.face_normals # ComputeFaceNormals(pre)
    /\ face_normals = pre.face_normals
    /\ vertex_normals # pre.vertex_normals

\* C10: a second ensure_normals with the same flags, nothing written in
\* between, leaves every array as the first call left it.
C10_EnsureIdempotent ==
    op = "ensure_normals" /\ calls = 2 => Mesh = pre

C10_Witness ==
    /\ op = "ensure_normals" /\ calls = 2 /\ args.face /\ args.vertex
    /\ IndicesInRange(Mesh)
    /\ face_normals # <<>> /\ face_normals = ComputeFaceNormals(Mesh)
    /\ vertex_normals # <<>>
    /\ vertex_normals = ComputeVertexNormals(Mesh, face_normals)

====
